---------------------------- MODULE Spec2Model ----------------------------
(***************************************************************************)
(* Data preparation and batching of the relation-extraction trainer:      *)
(* DataProcessor (parsing, label hierarchy, closed triple world, entity    *)
(* pair graph, stratified sampling, create_iterator) and Batcher           *)
(* (shuffle, chunking, length sort, word dropout, padding), modelled from  *)
(* src/data/process_data.py.                                               *)
(*                                                                         *)
(* Python values are represented as follows.  A list is a sequence, a      *)
(* dict is a function (its keys are the DOMAIN), a set is a set, a tuple   *)
(* is a sequence, None is the string "None".  An int-or-None value is <<>> *)
(* for None and <<k>> for the int k.  Python positions are 0-based; a      *)
(* sequence position p of the model is Python position p - 1.              *)
(***************************************************************************)
EXTENDS Integers, Sequences, FiniteSets, TLC

VARIABLES
    config,           \* self.config (DataProcessor and Batcher share it)
    partition_names,  \* self.partition_names
    partition_files,  \* the JSON arrays json.load has returned so far, by partition name
    pc,               \* position of the program: "preprocess", "constructed", "KeyError"
    name2id,          \* self.name2id, the label maps (ent2id .. deprel2id are constants)
    graph,            \* self.graph, (subject id, object id) -> set of relation ids
    num_rel,          \* self.num_rel
    partitions,       \* self.partitions, partition name -> list of parsed samples
    sampled,          \* outcome of the last perform_stratified_sampling call, if any
    batcher,          \* the Batcher the last create_iterator call returned, if any
    readied,          \* outcome of the last __getitem__ call on that Batcher, if any
    iter_pos,         \* <<i>> while an __iter__ generator of that Batcher is at index i, else <<>>
    calls             \* how often that Batcher has called np.random.shuffle and create_batches
                      \* and has been iterated

vars == <<config, partition_names, partition_files, pc, name2id, graph, num_rel,
          partitions, sampled, batcher, readied, iter_pos, calls>>

None == "None"

\* the outcome of a call: status "ok" with the result's fields, or the exception raised;
\* "NotCalled" before the first call
NotCalled == [status |-> "NotCalled"]
NoCalls == [shuffle |-> 0, create_batches |-> 0, iter |-> 0]
Raised(exception) == [status |-> exception]

-----------------------------------------------------------------------------
(* Bounds of the model *)

\* records per partition file
MaxRecords == 1
\* tokens per record in the span scenarios; span boundaries range over -1..MaxLen
MaxLen == 3
\* examples per partition in the batching and sampling scenarios; batch sizes range over
\* 1..MaxExamples
MaxExamples == 3
\* the largest configured sample_size
MaxSampleSize == 4
\* __iter__ calls per Batcher
MaxEpochs == 2

-----------------------------------------------------------------------------
(* Python primitives *)

Max(a, b) == IF a >= b THEN a ELSE b
Min(a, b) == IF a <= b THEN a ELSE b

\* range(a, b) as a list
PyRange(a, b) == [i \in 1..(b - a) |-> a + i - 1]

\* [x] * k ; the empty list when k <= 0
Repeat(x, k) == [i \in 1..k |-> x]

\* a slice bound normalised against a list of length n
ClampIdx(i, n) == IF i < 0 THEN Max(i + n, 0) ELSE Min(i, n)

\* list[a:b] = new   (slice assignment: the list may grow or shrink)
SliceAssign(list, a, b, new) ==
    LET n  == Len(list)
        lo == ClampIdx(a, n)
        hi == Max(ClampIdx(b, n), lo)
    IN  SubSeq(list, 1, lo) \o new \o SubSeq(list, hi + 1, n)

\* list[a:b]
Slice(list, a, b) ==
    LET n  == Len(list)
        lo == ClampIdx(a, n)
        hi == Max(ClampIdx(b, n), lo)
    IN  SubSeq(list, lo + 1, hi)

Range(f) == {f[x] : x \in DOMAIN f}

\* d[k] = v on a dict
Put(d, k, v) == [x \in DOMAIN d \cup {k} |-> IF x = k THEN v ELSE d[x]]

\* d[k].add(v) on a defaultdict(lambda: set())
AddTo(d, k, v) == Put(d, k, (IF k \in DOMAIN d THEN d[k] ELSE {}) \cup {v})

EmptyDict == [x \in {} |-> x]

-----------------------------------------------------------------------------
(* Strings.  TLC cannot look inside a string, so every string of the model *)
(* has its spelling here, and the substring test works on the spelling.    *)

AtomSpelling ==
    [s \in {"no_relation", "per:title", "org:founded_by", "PERSON", "ORGANIZATION", "TITLE"} |->
        CASE s = "no_relation"    -> <<"n","o","_","r","e","l","a","t","i","o","n">>
          [] s = "per:title"      -> <<"p","e","r",":","t","i","t","l","e">>
          [] s = "org:founded_by" -> <<"o","r","g",":","f","o","u","n","d","e","d","_","b","y">>
          [] s = "PERSON"         -> <<"P","E","R","S","O","N">>
          [] s = "ORGANIZATION"   -> <<"O","R","G","A","N","I","Z","A","T","I","O","N">>
          [] s = "TITLE"          -> <<"T","I","T","L","E">>]

RelationNames == {"no_relation", "per:title", "org:founded_by"}
EntityTypes == {"PERSON", "ORGANIZATION", "TITLE"}

\* '{}:{}:{}'.format(subj_type, relation, obj_type)
TypedName(subj_type, relation, obj_type) == subj_type \o ":" \o relation \o ":" \o obj_type

Spelling(s) ==
    IF s \in DOMAIN AtomSpelling THEN AtomSpelling[s]
    ELSE LET t == CHOOSE t \in EntityTypes \X RelationNames \X EntityTypes :
                     TypedName(t[1], t[2], t[3]) = s
         IN  AtomSpelling[t[1]] \o <<":">> \o AtomSpelling[t[2]] \o <<":">> \o AtomSpelling[t[3]]

\* sub in s   (Python substring test)
Contains(sub, s) ==
    LET w == Spelling(s)
    IN  \E i \in 0..(Len(w) - Len(sub)) : SubSeq(w, i + 1, i + Len(sub)) = sub

\* str.lower() on the tokens of the model
Lower(t) ==
    CASE t = "He"    -> "he"
      [] t = "Works" -> "works"
      [] OTHER       -> t

-----------------------------------------------------------------------------
(* utils.constant and the vocabulary handed to the DataProcessor *)

PAD_ID == 0
UNK_ID == 1

\* vocab.word2id
word2id ==
    [w \in {"<PAD>", "<UNK>", "he", "works", "SUBJ-PERSON", "SUBJ-ORGANIZATION",
            "OBJ-PERSON", "OBJ-TITLE"} |->
        CASE w = "<PAD>"             -> PAD_ID
          [] w = "<UNK>"             -> UNK_ID
          [] w = "he"                -> 2
          [] w = "works"             -> 3
          [] w = "SUBJ-PERSON"       -> 4
          [] w = "SUBJ-ORGANIZATION" -> 5
          [] w = "OBJ-PERSON"        -> 6
          [] w = "OBJ-TITLE"         -> 7]

POS_TO_ID == [t \in {"<PAD>", "<UNK>", "NNP"} |->
                CASE t = "<PAD>" -> PAD_ID [] t = "<UNK>" -> UNK_ID [] t = "NNP" -> 2]
NER_TO_ID == [t \in {"<PAD>", "<UNK>", "O"} |->
                CASE t = "<PAD>" -> PAD_ID [] t = "<UNK>" -> UNK_ID [] t = "O" -> 2]
DEPREL_TO_ID == [t \in {"<PAD>", "<UNK>", "nsubj"} |->
                CASE t = "<PAD>" -> PAD_ID [] t = "<UNK>" -> UNK_ID [] t = "nsubj" -> 2]

-----------------------------------------------------------------------------
(* DataProcessor: parsing *)

\* get_positions with end_idx taken as an exclusive bound
get_positions_exclusive_end(start_idx, end_idx, length) ==
    PyRange(-start_idx, 0) \o Repeat(0, end_idx - start_idx) \o PyRange(1, length - end_idx + 1)

\* get_positions(start_idx, end_idx, length)
get_positions(start_idx, end_idx, length) ==
    PyRange(-start_idx, 0) \o Repeat(0, end_idx - start_idx + 1) \o PyRange(1, length - end_idx)

\* map_to_ids(names, mapper)
map_to_ids(names, mapper) ==
    [i \in 1..Len(names) |-> IF names[i] \in DOMAIN mapper THEN mapper[names[i]] ELSE UNK_ID]

\* the token list after lower-casing and anonymisation (lines 48-61)
anonymize(d, cfg) ==
    LET tokens0 == IF cfg.lower THEN [i \in 1..Len(d.token) |-> Lower(d.token[i])] ELSE d.token
        subject_type == "SUBJ-" \o d.subj_type
        object_type == "OBJ-" \o d.obj_type
        tokens1 == SliceAssign(tokens0, d.subj_start, d.subj_end + 1,
                               Repeat(subject_type, d.subj_end - d.subj_start + 1))
    IN  SliceAssign(tokens1, d.obj_start, d.obj_end + 1,
                    Repeat(object_type, d.obj_end - d.obj_start + 1))

\* reverse_set_maps that files every value under one and the same key
reverse_set_maps_one_key(dict2set) ==
    [value \in UNION Range(dict2set) |-> CHOOSE key \in DOMAIN dict2set : TRUE]

\* reverse_set_maps(dict2set): value -> the key whose set holds it.  parse_data keeps the
\* value sets of each of its maps pairwise disjoint, so the iteration order does not matter.
reverse_set_maps(dict2set) ==
    [value \in UNION Range(dict2set) |-> CHOOSE key \in DOMAIN dict2set : value \in dict2set[key]]

\* create_all_possible_triples that pairs each relation only with the subject and object
\* types it has been seen with
create_all_possible_triples_seen(n) == UNION Range(n.subj_obj2triples)

\* create_all_possible_triples() on the maps n
create_all_possible_triples(n) ==
    {<<subject, relation, object>> :
        subject \in Range(n.subj2id), relation \in Range(n.rel2id), object \in Range(n.obj2id)}

\* add_unused_triples(unused_triples, mappings); the assert cannot fail for the set that
\* parse_data passes (all possible triples minus the keys of mappings)
add_unused_triples(unused_triples, mappings) ==
    [t \in DOMAIN mappings \cup unused_triples |->
        IF t \in unused_triples THEN "no_relation" ELSE mappings[t]]

\* rel2id after lines 74-75 with the first test dropped: the name gets a new id every time
assign_relation_id_anew(rel2id, relation_name) ==
    Put(rel2id, relation_name, Cardinality(DOMAIN rel2id))

\* rel2id after lines 74-75: a name not seen before gets the id len(rel2id)
assign_relation_id(rel2id, relation_name) ==
    IF relation_name \notin DOMAIN rel2id
    THEN Put(rel2id, relation_name, Cardinality(DOMAIN rel2id))
    ELSE rel2id

\* One iteration of the loop of parse_data (lines 47-121) for record d, on the working
\* state s = [n |-> name2id, g |-> graph, parsed |-> parsed_data, err |-> exception raised].
parse_record(s, d, cfg) ==
    LET subject_type == "SUBJ-" \o d.subj_type
        object_type == "OBJ-" \o d.obj_type
    IN
    IF s.err # None THEN s
    ELSE IF subject_type \notin DOMAIN word2id \/ object_type \notin DOMAIN word2id
    THEN [s EXCEPT !.err = "KeyError"]
    ELSE
    LET n == s.n
        subject_id == word2id[subject_type]
        object_id == word2id[object_type]
        tokens == map_to_ids(anonymize(d, cfg), word2id)
        pos == map_to_ids(d.stanford_pos, POS_TO_ID)
        ner == map_to_ids(d.stanford_ner, NER_TO_ID)
        deprel == map_to_ids(d.stanford_deprel, DEPREL_TO_ID)
        l == Len(tokens)
        subj_positions == get_positions(d.subj_start, d.subj_end, l)
        obj_positions == get_positions(d.obj_start, d.obj_end, l)
        relation_name == IF cfg.typed_relations
                         THEN TypedName(d.subj_type, d.relation, d.obj_type)
                         ELSE d.relation
        rel2id == assign_relation_id(n.rel2id, relation_name)
        relation_id == rel2id[relation_name]
        triple == <<subject_id, relation_id, object_id>>
        binary_rel2rels == IF relation_name = "no_relation"
                           THEN AddTo(n.binary_rel2rels, "no_relation", relation_id)
                           ELSE AddTo(n.binary_rel2rels, "has_relation", relation_id)
        subj2rels == IF Contains(<<"p","e","r">>, relation_name)
                     THEN AddTo(n.subj2rels, "per:relation", relation_id)
                     ELSE IF Contains(<<"o","r","g">>, relation_name)
                     THEN AddTo(n.subj2rels, "org:relation", relation_id)
                     ELSE AddTo(n.subj2rels, "no_relation", relation_id)
        subj_obj2triples == IF relation_name # "no_relation"
                            THEN AddTo(n.subj_obj2triples, subject_type \o ":" \o object_type, triple)
                            ELSE AddTo(n.subj_obj2triples, "no_relation", triple)
        base_sample == [tokens |-> tokens, pos |-> pos, ner |-> ner, deprel |-> deprel,
                        subj_positions |-> subj_positions, obj_positions |-> obj_positions,
                        relation |-> relation_id, subj_id |-> subject_id, obj_id |-> object_id]
        pair == <<subject_id, object_id>>
        supplemental_sample ==
            IF cfg.relation_masking
            THEN [triple |-> triple, relation_masking |-> <<subject_id, relation_id, object_id>>]
            ELSE [triple |-> triple]
    IN  [n |-> [n EXCEPT !.subj2id = Put(n.subj2id, subject_type, subject_id),
                         !.obj2id = Put(n.obj2id, object_type, object_id),
                         !.rel2id = rel2id,
                         !.binary_rel2rels = binary_rel2rels,
                         !.subj2rels = subj2rels,
                         !.subj_obj2triples = subj_obj2triples],
         g |-> IF cfg.relation_masking THEN AddTo(s.g, pair, relation_id) ELSE s.g,
         parsed |-> Append(s.parsed, [base |-> base_sample, supplemental |-> supplemental_sample]),
         err |-> None]

\* the loop of parse_data over data[1..k]
RECURSIVE parse_loop(_, _, _, _)
parse_loop(s, data, k, cfg) ==
    IF k = 0 THEN s ELSE parse_record(parse_loop(s, data, k - 1, cfg), data[k], cfg)

\* the curriculum mappings computed after the loop (lines 123-135)
curriculum_mappings(n) ==
    LET triple2subj_obj == reverse_set_maps(n.subj_obj2triples)
        all_possible_triples == create_all_possible_triples(n)
        unused_triples == all_possible_triples \ DOMAIN triple2subj_obj
    IN  [n EXCEPT !.id2rel = [v \in Range(n.rel2id) |-> CHOOSE k \in DOMAIN n.rel2id : n.rel2id[k] = v],
                  !.rel2binary_rel = reverse_set_maps(n.binary_rel2rels),
                  !.rel2subj = reverse_set_maps(n.subj2rels),
                  !.triple2subj_obj = add_unused_triples(unused_triples, triple2subj_obj),
                  !.rel2ids = [k \in DOMAIN n.rel2id |-> {n.rel2id[k]}]]

\* parse_data(data) as a function of the DataProcessor's maps
parse_data(n, g, data, cfg) ==
    LET s == parse_loop([n |-> n, g |-> g, parsed |-> <<>>, err |-> None], data, Len(data), cfg)
    IN  IF s.err # None THEN s ELSE [s EXCEPT !.n = curriculum_mappings(s.n)]

\* name2id as __init__ leaves it (lines 17-29); the maps parse_data adds later are empty
InitName2id ==
    [subj2id |-> EmptyDict, obj2id |-> EmptyDict, rel2id |-> EmptyDict,
     binary_rel2rels |-> EmptyDict, subj2rels |-> EmptyDict, subj_obj2triples |-> EmptyDict,
     id2rel |-> EmptyDict, rel2binary_rel |-> EmptyDict, rel2subj |-> EmptyDict,
     triple2subj_obj |-> EmptyDict, rel2ids |-> EmptyDict]

\* One turn of the loop of preprocess_data (lines 36-41): the next partition file is read
\* (its content is one of Files) and parsed; after the last one self.partitions is set and
\* the constructor returns.
PreprocessPartition(Files) ==
    /\ pc = "preprocess"
    /\ \E data \in Files :
         LET k == Cardinality(DOMAIN partition_files) + 1
             partition_name == partition_names[k]
             r == parse_data(name2id, graph, data, config)
         IN  /\ partition_files' = Put(partition_files, partition_name, data)
             /\ IF r.err # None
                THEN /\ pc' = r.err
                     /\ UNCHANGED <<name2id, graph, num_rel, partitions>>
                ELSE /\ name2id' = r.n
                     /\ graph' = r.g
                     /\ num_rel' = Cardinality(DOMAIN r.n.rel2id)
                     /\ partitions' = Put(partitions, partition_name, r.parsed)
                     /\ pc' = IF k = Len(partition_names) THEN "constructed" ELSE "preprocess"
    /\ UNCHANGED <<config, partition_names, sampled, batcher, readied, iter_pos, calls>>

-----------------------------------------------------------------------------
(* DataProcessor: stratified sampling *)

\* the sum of f over the finite set S
RECURSIVE SumOver(_, _)
SumOver(S, f) ==
    IF S = {} THEN 0 ELSE LET x == CHOOSE x \in S : TRUE IN f[x] + SumOver(S \ {x}, f)

\* the lists of k distinct elements of S: what np.random.choice(S, k, replace=False) can return
Arrangements(S, k) ==
    {a \in [1..k -> S] : \A i, j \in 1..k : i # j => a[i] # a[j]}

\* distribute_sample_size that gives every class the whole budget
distribute_sample_size_whole(sample_size, n, class_sample_bonus) ==
    [rel_id \in Range(n.rel2id) |-> sample_size]

\* distribute_sample_size(sample_size), given the result class_sample_bonus of
\* np.random.choice(len(rel2id), remainder, replace=False)
distribute_sample_size(sample_size, n, class_sample_bonus) ==
    LET class_sample_size == sample_size \div Cardinality(DOMAIN n.rel2id)
    IN  [rel_id \in Range(n.rel2id) |->
            IF rel_id \in class_sample_bonus THEN class_sample_size + 1 ELSE class_sample_size]

\* group_by_class(data): relation id -> ascending list of the (0-based) indices of its samples
group_by_class(data) ==
    [relation \in {data[i].base.relation : i \in 1..Len(data)} |->
        LET idxs == {i \in 1..Len(data) : data[i].base.relation = relation}
        IN  [k \in 1..Cardinality(idxs) |->
                (CHOOSE i \in idxs : Cardinality({j \in idxs : j < i}) = k - 1) - 1]]

\* the keys of class2indices in insertion order (order of first occurrence in data)
class_order(data) ==
    LET firsts == {i \in 1..Len(data) : \A j \in 1..(i - 1) : data[j].base.relation # data[i].base.relation}
    IN  [k \in 1..Cardinality(firsts) |->
            data[CHOOSE i \in firsts : Cardinality({j \in firsts : j < i}) = k - 1].base.relation]

\* sample_by_class followed by aggregate_sample_indices: the index lists that the
\* concatenation of the per-class samples of classes order[1..k] can be
RECURSIVE sample_by_class(_, _, _, _)
sample_by_class(class2indices, class2size, order, k) ==
    IF k = 0 THEN {<<>>}
    ELSE LET relation == order[k]
             indices == class2indices[relation]
             sample_size == Min(class2size[relation], Len(indices))
         IN  {front \o sample_indices :
                 front \in sample_by_class(class2indices, class2size, order, k - 1),
                 sample_indices \in Arrangements(Range(indices), sample_size)}

\* perform_stratified_sampling(data): the set of its outcomes, each with the argument data
\* and the locals class2size and sample_indices.  It raises ZeroDivisionError when no
\* relation is known and ValueError (np.concatenate of no arrays) when data is empty.
perform_stratified_sampling(data, n, cfg) ==
    LET sample_size == cfg.sample_size[1]
        num == Cardinality(DOMAIN n.rel2id)
    IN  IF num = 0 THEN {[status |-> "ZeroDivisionError", data |-> data]}
        ELSE IF Len(data) = 0 THEN {[status |-> "ValueError", data |-> data]}
        ELSE {[status |-> "ok",
               data |-> data,
               class2size |-> class2size,
               sample_indices |-> sample_indices,
               sample_data |-> [i \in 1..Len(sample_indices) |-> data[sample_indices[i] + 1]]] :
                <<class2size, sample_indices>> \in UNION {
                    {distribute_sample_size(sample_size, n, class_sample_bonus)} \X
                    sample_by_class(group_by_class(data),
                                    distribute_sample_size(sample_size, n, class_sample_bonus),
                                    class_order(data), Len(class_order(data))) :
                    class_sample_bonus \in {b \in SUBSET (0..(num - 1)) :
                                                Cardinality(b) = sample_size % num}}}

-----------------------------------------------------------------------------
(* DataProcessor.create_iterator *)

CurriculumStages == {"binary", "subj_type", "subj_obj_type", "full"}

\* id2label of the stage (lines 228-245)
id2label_of(n, curriculum_stage) ==
    CASE curriculum_stage = "binary"        -> n.rel2binary_rel
      [] curriculum_stage = "subj_type"     -> n.rel2subj
      [] curriculum_stage = "subj_obj_type" -> n.triple2subj_obj
      [] curriculum_stage = "full"          -> n.id2rel

\* label2id of the stage
label2id_of(n, curriculum_stage) ==
    CASE curriculum_stage = "binary"        -> n.binary_rel2rels
      [] curriculum_stage = "subj_type"     -> n.subj2rels
      [] curriculum_stage = "subj_obj_type" -> n.subj_obj2triples
      [] curriculum_stage = "full"          -> n.rel2ids

\* triple2id_fn of the stage, by name; triple2rel and triple2triple applied
triple2id_fn_of(curriculum_stage) ==
    IF curriculum_stage = "subj_obj_type" THEN "triple2triple" ELSE "triple2rel"

apply_triple2id_fn(fn, triple) == IF fn = "triple2rel" THEN triple[2] ELSE triple

\* relation_label of the loop of create_iterator (lines 250-256) for one sample
relation_label_of(raw_sample, n, curriculum_stage) ==
    LET match_triple == <<raw_sample.base.subj_id, raw_sample.base.relation, raw_sample.base.obj_id>>
        id == apply_triple2id_fn(triple2id_fn_of(curriculum_stage), match_triple)
    IN  id2label_of(n, curriculum_stage)[id]

\* the key of name2id that holds label2id of the stage
label2id_name(curriculum_stage) ==
    CASE curriculum_stage = "binary"        -> "binary_rel2rels"
      [] curriculum_stage = "subj_type"     -> "subj2rels"
      [] curriculum_stage = "subj_obj_type" -> "subj_obj2triples"
      [] curriculum_stage = "full"          -> "rel2ids"

\* the defaultdict d after the lookups d[key] for key in keys (lines 258, 260): a lookup
\* of a missing key inserts it with an empty set
defaultdict_getitem(d, keys) ==
    [k \in DOMAIN d \cup keys |-> IF k \in DOMAIN d THEN d[k] ELSE {}]

\* name2id after the loop of create_iterator over data: binary_rel2rels, subj2rels and
\* subj_obj2triples are defaultdicts, rel2ids is a dict
name2id_after_lookups(n, data, curriculum_stage) ==
    IF curriculum_stage = "full" THEN n
    ELSE [n EXCEPT ![label2id_name(curriculum_stage)] =
            defaultdict_getitem(@, {relation_label_of(data[i], n, curriculum_stage) :
                                        i \in 1..Len(data)})]

\* the sample of the partition after the loop body has written to sample, were sample
\* the partition's own object (sample = raw_sample)
no_copy(raw_sample, sample) == sample

\* the sample of the partition after the loop body has written to
\* sample = deepcopy(raw_sample) (line 248)
deepcopy(raw_sample, sample) == raw_sample

\* the body of the loop of create_iterator (lines 248-271) for one sample
clean_sample(raw_sample, n, g, nrel, curriculum_stage, masking) ==
    LET relation_id == raw_sample.base.relation
        relation_label == relation_label_of(raw_sample, n, curriculum_stage)
        members == label2id_of(n, curriculum_stage)[relation_label]
        matched_ids == IF curriculum_stage = "subj_obj_type"
                       THEN {triple[2] : triple \in members}
                       ELSE members
        activated_relations == [r \in 1..nrel |-> IF (r - 1) \in matched_ids THEN 1 ELSE 0]
        base == [tokens |-> raw_sample.base.tokens, pos |-> raw_sample.base.pos,
                 ner |-> raw_sample.base.ner, deprel |-> raw_sample.base.deprel,
                 subj_positions |-> raw_sample.base.subj_positions,
                 obj_positions |-> raw_sample.base.obj_positions,
                 relation |-> relation_id, subj_id |-> raw_sample.base.subj_id,
                 obj_id |-> raw_sample.base.obj_id,
                 activated_relations |-> activated_relations]
    IN  IF masking
        THEN LET rm == raw_sample.supplemental.relation_masking
                 known_relations == g[<<rm[1], rm[3]>>]
             IN  [base |-> base,
                  supplemental |-> [raw_sample.supplemental EXCEPT
                                       !.relation_masking = <<known_relations>>]]
        ELSE [base |-> base, supplemental |-> raw_sample.supplemental]

-----------------------------------------------------------------------------
(* Batcher *)

\* base_mapper(sample): the seven base fields
base_mapper(sample) ==
    <<sample.tokens, sample.pos, sample.ner, sample.deprel,
      sample.subj_positions, sample.obj_positions, sample.activated_relations>>

\* create_batches that keeps only the batches of full size
create_batches_full_only(data, batch_size) ==
    [k \in 1..(Len(data) \div batch_size) |->
        LET batch == Slice(data, (k - 1) * batch_size, k * batch_size)
        IN  [base |-> [i \in 1..Len(batch) |-> base_mapper(batch[i].base)],
             supplemental |->
                [name \in DOMAIN data[1].supplemental |->
                    [i \in 1..Len(batch) |-> batch[i].supplemental[name]]]]]

\* create_batches(data, batch_size)
create_batches(data, batch_size) ==
    LET starts == {b \in 0..(Len(data) - 1) : b % batch_size = 0}
    IN  [k \in 1..Cardinality(starts) |->
            LET batch_start == (k - 1) * batch_size
                batch == Slice(data, batch_start, batch_start + batch_size)
            IN  [base |-> [i \in 1..Len(batch) |-> base_mapper(batch[i].base)],
                 supplemental |->
                    [name \in DOMAIN data[1].supplemental |->
                        [i \in 1..Len(batch) |-> batch[i].supplemental[name]]]]]

\* the lists np.random.shuffle(dataset) can leave
Shuffles(dataset) ==
    {[i \in 1..Len(dataset) |-> dataset[p[i]]] :
        p \in {q \in [1..Len(dataset) -> 1..Len(dataset)] :
                  \A i, j \in 1..Len(dataset) : i # j => q[i] # q[j]}}

\* Batcher.__init__ after the shuffle: the new object's attributes (dataset is the
\* constructor's argument as the shuffle left it)
new_batcher(dataset, id2label, triple2id_fn, is_eval, batch_size) ==
    [status |-> "ok",
     id2label |-> id2label,
     triple2id_fn |-> triple2id_fn,
     batch_size |-> batch_size,
     is_eval |-> is_eval,
     dataset |-> dataset,
     labels |-> [i \in 1..Len(dataset) |->
                    id2label[apply_triple2id_fn(triple2id_fn, dataset[i].supplemental.triple)]],
     num_examples |-> Len(dataset),
     batches |-> create_batches(dataset, batch_size)]

\* create_iterator(config, partition_name, curriculum_stage), with relation_masking the
\* value of config['relation_masking'] of its argument
CreateIterator(partition_name, curriculum_stage, relation_masking) ==
    /\ pc = "constructed"
    /\ LET is_eval == partition_name # "train"
           outcomes == IF config.sample_size # <<>>
                       THEN perform_stratified_sampling(partitions[partition_name], name2id, config)
                       ELSE {[status |-> "ok", sample_data |-> partitions[partition_name],
                              sample_indices |-> PyRange(0, Len(partitions[partition_name]))]}
       IN  \E o \in outcomes :
             /\ sampled' = IF config.sample_size # <<>> THEN o ELSE NotCalled
             /\ IF o.status # "ok"
                THEN /\ batcher' = Raised(o.status)
                     /\ calls' = NoCalls
                     /\ UNCHANGED <<name2id, partitions>>
                ELSE IF relation_masking /\ ~config.relation_masking /\ Len(o.sample_data) > 0
                THEN /\ batcher' = Raised("KeyError")
                     /\ calls' = NoCalls
                     /\ UNCHANGED <<name2id, partitions>>
                ELSE LET cleaned_data ==
                             [i \in 1..Len(o.sample_data) |->
                                 clean_sample(o.sample_data[i], name2id, graph, num_rel,
                                              curriculum_stage, relation_masking)]
                         at(j) == CHOOSE i \in 1..Len(o.sample_indices) : o.sample_indices[i] = j - 1
                     IN  \E dataset \in (IF is_eval THEN {cleaned_data} ELSE Shuffles(cleaned_data)) :
                           /\ name2id' = name2id_after_lookups(name2id, o.sample_data, curriculum_stage)
                           /\ partitions' =
                                [partitions EXCEPT ![partition_name] =
                                    [j \in 1..Len(@) |->
                                        IF j - 1 \in Range(o.sample_indices)
                                        THEN deepcopy(@[j], cleaned_data[at(j)])
                                        ELSE @[j]]]
                           /\ batcher' = new_batcher(dataset, id2label_of(name2id, curriculum_stage),
                                                     triple2id_fn_of(curriculum_stage),
                                                     is_eval, config.batch_size)
                           /\ calls' = [shuffle |-> IF is_eval THEN 0 ELSE 1,
                                        create_batches |-> 1, iter |-> 0]
    /\ readied' = NotCalled
    /\ iter_pos' = <<>>
    /\ UNCHANGED <<config, partition_names, partition_files, pc, graph, num_rel>>

-----------------------------------------------------------------------------
(* Batcher: materialising a batch *)

\* the values np.random.random() returns, and word_dropout rates, are counted in halves:
\* a draw is 0 (0.0) or 1 (0.5), a rate is 0 (0.0), 1 (0.5) or 2 (1.0)
RandomDraws == {0, 1}
\* the rates at which the dropout test has one outcome
CertainRates == {0, 2}

\* sort_all that returns, for each original position, its place in the sorted order
sort_all_rank(batch, lens) ==
    LET n == Len(lens)
        rank(i) == Cardinality({j \in 1..n : lens[j] > lens[i] \/ (lens[j] = lens[i] /\ j > i)})
        at(k) == CHOOSE i \in 1..n : rank(i) = k - 1
    IN  << [f \in 1..Len(batch) |-> [k \in 1..n |-> batch[f][at(k)]]],
           [i \in 1..n |-> rank(i)] >>

\* sort_all as a stable sort by descending length: of two entries of equal length the one
\* with the smaller original index comes first
sort_all_stable(batch, lens) ==
    LET n == Len(lens)
        rank(i) == Cardinality({j \in 1..n : lens[j] > lens[i] \/ (lens[j] = lens[i] /\ j < i)})
        at(k) == CHOOSE i \in 1..n : rank(i) = k - 1
    IN  << [f \in 1..Len(batch) |-> [k \in 1..n |-> batch[f][at(k)]]],
           [k \in 1..n |-> at(k) - 1] >>

\* sort_all(batch, lens): the fields of batch (a list of parallel lists) in descending
\* order of the tuples (length, original index, field values ...), and the original
\* indices in that order.  The indices differ, so the order is decided by length and then
\* by index, the larger first; the field values are never compared.
sort_all(batch, lens) ==
    LET n == Len(lens)
        rank(i) == Cardinality({j \in 1..n : lens[j] > lens[i] \/ (lens[j] = lens[i] /\ j > i)})
        at(k) == CHOOSE i \in 1..n : rank(i) = k - 1
    IN  << [f \in 1..Len(batch) |-> [k \in 1..n |-> batch[f][at(k)]]],
           [k \in 1..n |-> at(k) - 1] >>

\* list(zip(*rows)) for rows of equal width
zip_star(rows, width) == [f \in 1..width |-> [i \in 1..Len(rows) |-> rows[i][f]]]

\* the values that the test np.random.random() < dropout can have
DropoutTests(dropout) == {r < dropout : r \in RandomDraws}

\* word_dropout(tokens, dropout) with hit[j] the value of np.random.random() < dropout
\* for token j (the test is made for the tokens other than UNK_ID only)
word_dropout(tokens, hit) ==
    [j \in 1..Len(tokens) |-> IF tokens[j] # UNK_ID /\ hit[j] THEN UNK_ID ELSE tokens[j]]

\* get_long_tensor that leaves every row at its own length
get_long_tensor_ragged(tokens_list, batch_size) ==
    [i \in 1..batch_size |-> tokens_list[i]]

\* get_long_tensor(tokens_list, batch_size): rows padded with PAD_ID to the longest
get_long_tensor(tokens_list, batch_size) ==
    LET lengths == {Len(tokens_list[i]) : i \in 1..Len(tokens_list)}
        token_len == CHOOSE m \in lengths : \A x \in lengths : x <= m
    IN  [i \in 1..batch_size |-> [j \in 1..token_len |->
            IF i <= Len(tokens_list) /\ j <= Len(tokens_list[i])
            THEN tokens_list[i][j] ELSE PAD_ID]]

\* ready_base_batch(base_batch, batch_size), with draws[i][j] the value of the test
\* np.random.random() < dropout for token j of sorted sentence i
ready_base_batch(base_batch, batch_size, is_eval, draws) ==
    LET batch0 == zip_star(base_batch, 7)
        lens == [i \in 1..Len(batch0[1]) |-> Len(batch0[1][i])]
        sorted == sort_all(batch0, lens)
        batch == sorted[1]
        orig_idx == sorted[2]
        words0 == IF ~is_eval
                  THEN [i \in 1..Len(batch[1]) |-> word_dropout(batch[1][i], draws[i])]
                  ELSE batch[1]
        words == get_long_tensor(words0, batch_size)
        masks == [i \in 1..Len(words) |-> [j \in 1..Len(words[i]) |-> words[i][j] = 0]]
    IN  [base |-> <<words, masks,
                    get_long_tensor(batch[2], batch_size),
                    get_long_tensor(batch[3], batch_size),
                    get_long_tensor(batch[4], batch_size),
                    get_long_tensor(batch[5], batch_size),
                    get_long_tensor(batch[6], batch_size),
                    get_long_tensor(batch[7], batch_size),
                    orig_idx>>,
         sentence_lengths |-> lens]

\* ready_triple_batch that takes sentence_lengths for the lengths in sorted order
ready_triple_batch_sorted_lengths(triple_batch, sentence_lengths) ==
    sort_all(zip_star(triple_batch, 3),
             sort_all(<<sentence_lengths>>, sentence_lengths)[1][1])[1]

\* ready_triple_batch(triple_batch, sentence_lengths)
ready_triple_batch(triple_batch, sentence_lengths) ==
    sort_all(zip_star(triple_batch, 3), sentence_lengths)[1]

\* ready_relation_masks_batch and ready_binary_labels_batch begin with len(self.rel2id),
\* an attribute that Batcher.__init__ does not set
ready_relation_masks_batch(mask_batch, sentence_lengths) == "AttributeError"
ready_binary_labels_batch(label_batch, sentence_lengths) == "AttributeError"

\* the supplemental fields ready_data_batch readies (lines 415-428); a field of another
\* name is left out of the readied batch
ReadiedNames == {"relation_masks", "binary_labels", "triple"}

\* ready_data_batch(batch)
ready_data_batch(batch, is_eval, draws) ==
    LET batch_size == Len(batch.base)
        readied_batch == ready_base_batch(batch.base, batch_size, is_eval, draws)
    IN  [base |-> readied_batch.base,
         sentence_lengths |-> readied_batch.sentence_lengths,
         supplemental |->
            [name \in DOMAIN batch.supplemental \cap ReadiedNames |->
                CASE name = "relation_masks" ->
                        ready_relation_masks_batch(batch.supplemental[name],
                                                   readied_batch.sentence_lengths)
                  [] name = "binary_labels" ->
                        ready_binary_labels_batch(batch.supplemental[name],
                                                  readied_batch.sentence_lengths)
                  [] name = "triple" ->
                        ready_triple_batch(batch.supplemental[name],
                                           readied_batch.sentence_lengths)]]

\* the outcomes of the dropout tests of a batch: none in evaluation; when training, one
\* for each token other than UNK_ID, draws[i][j] for token j of the i-th sentence in
\* sorted order (the entries of draws for UNK_ID tokens are never used)
DrawsFor(batch, is_eval, dropout) ==
    LET n == Len(batch.base)
        lens == [i \in 1..n |-> Len(batch.base[i][1])]
        tokens == sort_all(<<[i \in 1..n |-> batch.base[i][1]]>>, lens)[1][1]
        drawn == UNION {{<<i, j>> : j \in {k \in 1..Len(tokens[i]) : tokens[i][k] # UNK_ID}} : i \in 1..n}
    IN  IF is_eval THEN {<<>>}
        ELSE {[i \in 1..n |-> [j \in 1..Len(tokens[i]) |-> <<i, j>> \in drawn /\ d[<<i, j>>]]] :
                d \in [drawn -> DropoutTests(dropout)]}

\* the outcomes of __getitem__(item)
getitem(item) ==
    IF item < 0 \/ item >= Len(batcher.batches)
    THEN {Raised("IndexError")}
    ELSE {[status |-> "ok", item |-> item,
           batch |-> ready_data_batch(batcher.batches[item + 1], batcher.is_eval, draws)] :
            draws \in DrawsFor(batcher.batches[item + 1], batcher.is_eval, config.word_dropout)}

\* batcher[item] that sorts the stored batch in place
GetItemSortingInPlace(item) ==
    /\ batcher.status = "ok"
    /\ \E r \in getitem(item) :
          /\ readied' = r
          /\ batcher' = IF r.status # "ok" THEN batcher
                        ELSE [batcher EXCEPT !.batches[item + 1].base =
                                [k \in 1..Len(@) |-> @[r.batch.base[9][k] + 1]]]
    /\ UNCHANGED <<config, partition_names, partition_files, pc, name2id, graph, num_rel,
                   partitions, sampled, iter_pos, calls>>

\* batcher[item]
GetItem(item) ==
    /\ batcher.status = "ok"
    /\ \E r \in getitem(item) : readied' = r
    /\ UNCHANGED <<config, partition_names, partition_files, pc, name2id, graph, num_rel,
                   partitions, sampled, batcher, iter_pos, calls>>

\* iter(batcher) that shuffles the samples and chunks them again for the new epoch
IterStartReshuffle ==
    /\ batcher.status = "ok"
    /\ iter_pos = <<>>
    /\ calls.iter < MaxEpochs
    /\ iter_pos' = <<0>>
    /\ \E dataset \in Shuffles(batcher.dataset) :
          batcher' = [batcher EXCEPT !.dataset = dataset,
                                     !.batches = create_batches(dataset, batcher.batch_size)]
    /\ calls' = [calls EXCEPT !.iter = @ + 1, !.shuffle = @ + 1, !.create_batches = @ + 1]
    /\ UNCHANGED <<config, partition_names, partition_files, pc, name2id, graph, num_rel,
                   partitions, sampled, readied>>

\* iter(batcher): a generator over range(len(batcher)) is started
IterStart ==
    /\ batcher.status = "ok"
    /\ iter_pos = <<>>
    /\ calls.iter < MaxEpochs
    /\ iter_pos' = <<0>>
    /\ calls' = [calls EXCEPT !.iter = @ + 1]
    /\ UNCHANGED <<config, partition_names, partition_files, pc, name2id, graph, num_rel,
                   partitions, sampled, batcher, readied>>

\* next() on the generator: it yields self.__getitem__(i), or ends after the last batch
IterNext ==
    /\ batcher.status = "ok"
    /\ iter_pos # <<>>
    /\ IF iter_pos[1] < Len(batcher.batches)
       THEN /\ \E r \in getitem(iter_pos[1]) : readied' = r
            /\ iter_pos' = <<iter_pos[1] + 1>>
       ELSE /\ iter_pos' = <<>>
            /\ UNCHANGED readied
    /\ UNCHANGED <<config, partition_names, partition_files, pc, name2id, graph, num_rel,
                   partitions, sampled, batcher, calls>>

-----------------------------------------------------------------------------
(* Inputs *)

\* a RawRecord with one tag per token
Record(token, ss, se, os, oe, subj_type, obj_type, relation) ==
    [token |-> token, subj_start |-> ss, subj_end |-> se, obj_start |-> os, obj_end |-> oe,
     subj_type |-> subj_type, obj_type |-> obj_type,
     stanford_pos |-> Repeat("NNP", Len(token)), stanford_ner |-> Repeat("O", Len(token)),
     stanford_deprel |-> Repeat("nsubj", Len(token)), relation |-> relation]

\* records that differ in entity types and relation
LabelRecords ==
    {Record(<<"He", "works">>, 0, 0, 1, 1, t[1], t[2], t[3]) :
        t \in {<<"PERSON", "PERSON", "no_relation">>,
               <<"PERSON", "PERSON", "per:title">>,
               <<"PERSON", "TITLE", "per:title">>,
               <<"ORGANIZATION", "PERSON", "org:founded_by">>}}

\* records that differ in length and span boundaries, in range or not
SpanRecords ==
    {Record(Repeat("He", len), b[1], b[2], b[3], b[4], "PERSON", "TITLE", "per:title") :
        len \in 1..MaxLen, b \in (-1..MaxLen) \X (-1..MaxLen) \X (-1..MaxLen) \X (-1..MaxLen)}

\* the lists of at most k elements of S
RECURSIVE ListsUpTo(_, _)
ListsUpTo(S, k) ==
    IF k = 0 THEN {<<>>}
    ELSE LET shorter == ListsUpTo(S, k - 1)
         IN  shorter \cup {Append(l, x) : l \in {m \in shorter : Len(m) = k - 1}, x \in S}

Config(lower, typed_relations, relation_masking, sample_size, batch_size, dropout) ==
    [lower |-> lower, typed_relations |-> typed_relations, relation_masking |-> relation_masking,
     sample_size |-> sample_size, batch_size |-> batch_size, word_dropout |-> dropout]

\* the state when __init__ calls preprocess_data (line 32)
InitWith(cfg, names) ==
    /\ config = cfg
    /\ partition_names = names
    /\ partition_files = EmptyDict
    /\ pc = "preprocess"
    /\ name2id = InitName2id
    /\ graph = EmptyDict
    /\ num_rel = None
    /\ partitions = EmptyDict
    /\ sampled = NotCalled
    /\ batcher = NotCalled
    /\ readied = NotCalled
    /\ iter_pos = <<>>
    /\ calls = NoCalls

-----------------------------------------------------------------------------
(* Construction over train, dev, test with records that differ in their labels *)

InitLabels ==
    \E typed_relations \in BOOLEAN, relation_masking \in BOOLEAN :
        InitWith(Config(FALSE, typed_relations, relation_masking, <<>>, 2, 0),
                 <<"train", "dev", "test">>)

NextLabels == PreprocessPartition(ListsUpTo(LabelRecords, MaxRecords))

SpecLabels == InitLabels /\ [][NextLabels]_vars

(* Construction over one partition whose record has arbitrary span boundaries *)

InitSpans ==
    \E lower \in BOOLEAN :
        InitWith(Config(lower, FALSE, FALSE, <<>>, 2, 0), <<"train">>)

NextSpans == PreprocessPartition(ListsUpTo(SpanRecords, 1))

SpecSpans == InitSpans /\ [][NextSpans]_vars

(* Construction, one iterator and batch materialisation over records of several lengths *)

\* one record per entry: its length and its labels; the tokens other than the two entity
\* spans are out of vocabulary
BatchRecords ==
    {Record(Repeat("Works", t[1]), 0, 0, t[1] - 1, t[1] - 1, t[2], t[3], t[4]) :
        t \in {<<1, "PERSON", "PERSON", "no_relation">>,
               <<2, "PERSON", "TITLE", "per:title">>,
               <<3, "ORGANIZATION", "PERSON", "org:founded_by">>}}

\* the files of the scenario: a train file lists its records by ascending length (the
\* Batcher shuffles them into every order), another file lists them in any order
BatchFiles ==
    IF partition_names[1] = "train"
    THEN {l \in ListsUpTo(BatchRecords, MaxExamples) :
            \A i, j \in 1..Len(l) : i < j => Len(l[i].token) <= Len(l[j].token)}
    ELSE ListsUpTo(BatchRecords, MaxExamples)

InitBatch ==
    \E relation_masking \in BOOLEAN, batch_size \in 1..MaxExamples, dropout \in CertainRates,
       names \in {<<"train">>, <<"dev">>} :
        InitWith(Config(FALSE, FALSE, relation_masking, <<>>, batch_size, dropout), names)

NextBatch ==
    \/ PreprocessPartition(BatchFiles)
    \/ \E partition_name \in Range(partition_names) :
          CreateIterator(partition_name, "full", config.relation_masking)
    \/ \E item \in (-1)..MaxExamples : GetItem(item)

SpecBatch == InitBatch /\ [][NextBatch]_vars

(* Construction, one iterator and repeated iteration over it *)

InitEpochs ==
    \E batch_size \in 1..MaxExamples, names \in {<<"train">>, <<"dev">>} :
        InitWith(Config(FALSE, FALSE, FALSE, <<>>, batch_size, 0), names)

NextEpochs ==
    \/ PreprocessPartition(BatchFiles)
    \/ \E partition_name \in Range(partition_names) :
          CreateIterator(partition_name, "full", config.relation_masking)
    \/ IterStart
    \/ IterNext

SpecEpochs == InitEpochs /\ [][NextEpochs]_vars

(* Construction, one iterator and repeated materialisation at every word dropout rate *)

\* the files of the scenario: those of the batching scenario with one record fewer
DropoutFiles == {l \in BatchFiles : Len(l) < MaxExamples}

InitDropout ==
    \E batch_size \in 1..2, dropout \in {0, 1, 2}, names \in {<<"train">>, <<"dev">>} :
        InitWith(Config(FALSE, FALSE, FALSE, <<>>, batch_size, dropout), names)

NextDropout ==
    \/ PreprocessPartition(DropoutFiles)
    \/ \E partition_name \in Range(partition_names) :
          CreateIterator(partition_name, "full", config.relation_masking)
    \/ \E item \in 0..1 : GetItem(item)
    \/ IterStart
    \/ IterNext

SpecDropout == InitDropout /\ [][NextDropout]_vars

(* Construction over train and dev and one iterator with stratified sampling *)

SampleRecords ==
    {Record(<<"He", "works">>, 0, 0, 1, 1, t[1], t[2], t[3]) :
        t \in {<<"PERSON", "PERSON", "no_relation">>,
               <<"PERSON", "TITLE", "per:title">>,
               <<"ORGANIZATION", "PERSON", "org:founded_by">>}}

InitSampling ==
    \E sample_size \in 0..MaxSampleSize :
        InitWith(Config(FALSE, FALSE, FALSE, <<sample_size>>, 2, 0), <<"train", "dev">>)

NextSampling ==
    \/ PreprocessPartition(ListsUpTo(SampleRecords,
                    IF partition_files = EmptyDict THEN MaxRecords ELSE MaxExamples))
    \/ \E partition_name \in Range(partition_names) :
          CreateIterator(partition_name, "full", config.relation_masking)

SpecSampling == InitSampling /\ [][NextSampling]_vars

(* Construction over one partition whose records hold tokens, tags and entity types *)
(* inside and outside the vocabulary                                                *)

\* three-token records, subject span on the first and object span on the last token; the
\* middle token, the tags of the middle token and the entity types vary
VocabRecords ==
    {[Record(<<"He", t[1], "He">>, 0, 0, 2, 2, t[5], t[6], "per:title") EXCEPT
         !.stanford_pos = <<"NNP", t[2], "NNP">>,
         !.stanford_ner = <<"O", t[3], "O">>,
         !.stanford_deprel = <<"nsubj", t[4], "nsubj">>] :
        t \in {"works", "Works"} \X {"NNP", "XX"} \X {"O", "XX"} \X {"nsubj", "XX"}
               \X {"PERSON", "TITLE"} \X {"PERSON", "ORGANIZATION"}}

InitVocab ==
    \E lower \in BOOLEAN :
        InitWith(Config(lower, FALSE, FALSE, <<>>, 2, 0), <<"train">>)

NextVocab == PreprocessPartition(ListsUpTo(VocabRecords, MaxRecords))

SpecVocab == InitVocab /\ [][NextVocab]_vars

(* Construction over train and dev, then iterators of every curriculum stage, with and *)
(* without relation masking and sampling, and batch materialisation                    *)

InitStages ==
    \E typed_relations \in BOOLEAN, relation_masking \in BOOLEAN, sample_size \in {<<>>, <<1>>} :
        InitWith(Config(FALSE, typed_relations, relation_masking, sample_size, 2, 0),
                 <<"train", "dev">>)

NextStages ==
    \/ PreprocessPartition(ListsUpTo(LabelRecords,
                    IF partition_files = EmptyDict THEN MaxRecords ELSE 1))
    \/ \E partition_name \in Range(partition_names), curriculum_stage \in CurriculumStages,
          relation_masking \in BOOLEAN :
          CreateIterator(partition_name, curriculum_stage, relation_masking)
    \/ \E item \in 0..1 : GetItem(item)

SpecStages == InitStages /\ [][NextStages]_vars

-----------------------------------------------------------------------------
(* Properties *)

\* the samples of partition name, with the records they were parsed from
ParsedPairs(name) ==
    {<<partition_files[name][i], partitions[name][i]>> : i \in 1..Len(partitions[name])}

ClosedTripleSpace == Range(name2id.subj2id) \X Range(name2id.rel2id) \X Range(name2id.obj2id)

\* the triples of the samples of partition name
TriplesOf(name) ==
    IF name \in DOMAIN partitions
    THEN {sample.supplemental.triple : sample \in Range(partitions[name])}
    ELSE {}

\* C2: after every completed parse_data call, every triple of subject ids x relation ids x
\* object ids seen so far is a key of triple2subj_obj.
C2_ClosedTripleWorldComplete ==
    pc \in {"preprocess", "constructed"} =>
        \A t \in ClosedTripleSpace : t \in DOMAIN name2id.triple2subj_obj

\* C2 witness: two partitions are parsed and some triple of the closed space occurs in no sample
C2_Witness ==
    /\ pc \in {"preprocess", "constructed"}
    /\ Cardinality(DOMAIN partitions) >= 2
    /\ \E t \in ClosedTripleSpace :
          /\ t \notin UNION {TriplesOf(name) : name \in DOMAIN partitions}
          /\ name2id.triple2subj_obj[t] = "no_relation"

\* C3: after construction over train, dev, test, every triple of the closed triple space
\* that does not occur in the training partition is mapped to "no_relation".
C3_AbsentFromTrainIsNoRelation ==
    pc = "constructed" =>
        \A t \in ClosedTripleSpace :
            t \notin TriplesOf("train") => name2id.triple2subj_obj[t] = "no_relation"

\* C4: once the label space is built and "no_relation" has occurred, its relation id is
\* the final index num_rel - 1.
C4_NoRelationIsLastIndex ==
    (pc = "constructed" /\ "no_relation" \in DOMAIN name2id.rel2id) =>
        name2id.rel2id["no_relation"] = num_rel - 1

\* 0 <= start <= end < len(tokens) for both spans of record d
ValidSpans(d) ==
    /\ 0 <= d.subj_start /\ d.subj_start <= d.subj_end /\ d.subj_end < Len(d.token)
    /\ 0 <= d.obj_start /\ d.obj_start <= d.obj_end /\ d.obj_end < Len(d.token)

\* positions is the signed distance to the span start..end over a sequence of length l
PositionsAround(positions, start, end, l) ==
    /\ Len(positions) = l
    /\ \A p \in 1..Len(positions) :
          LET i == p - 1
          IN  positions[p] = IF i < start THEN i - start ELSE IF i > end THEN i - end ELSE 0

\* C6: for every sample parsed from a record with both spans in range, the subject and the
\* object position sequence have the length of the anonymised token sequence, are 0 on
\* start..end, i - start before the span and i - end after it.
C6_PositionSequences ==
    \A name \in DOMAIN partitions : \A ds \in ParsedPairs(name) :
        LET d == ds[1]
            base == ds[2].base
        IN  ValidSpans(d) =>
              /\ PositionsAround(base.subj_positions, d.subj_start, d.subj_end, Len(base.tokens))
              /\ PositionsAround(base.obj_positions, d.obj_start, d.obj_end, Len(base.tokens))

\* C6 witness: a parsed sample with spans in range, a token before its subject span and a
\* token after it
C6_Witness ==
    \E name \in DOMAIN partitions : \E ds \in ParsedPairs(name) :
        /\ ValidSpans(ds[1])
        /\ ds[1].subj_start > 0
        /\ ds[1].subj_end < Len(ds[1].token) - 1
        /\ ds[1].obj_start < ds[1].obj_end

\* C7: a record with a span out of range yields no sample (parsing fails), and no sample
\* has a token sequence whose length differs from its tag sequences or from the record's
\* token count.
C7_BadSpansRejected ==
    \A name \in DOMAIN partitions : \A ds \in ParsedPairs(name) :
        LET d == ds[1]
            base == ds[2].base
        IN  /\ ValidSpans(d)
            /\ Len(base.tokens) = Len(d.token)
            /\ Len(base.tokens) = Len(base.pos)
            /\ Len(base.tokens) = Len(base.ner)
            /\ Len(base.tokens) = Len(base.deprel)

\* the relation ids of the training samples with subject id and object id pair
TrainRelationsOf(pair) ==
    IF "train" \in DOMAIN partitions
    THEN {sample.base.relation : sample \in
            {x \in Range(partitions["train"]) : <<x.base.subj_id, x.base.obj_id>> = pair}}
    ELSE {}

\* C8: with relation masking enabled, after construction the entity-pair graph maps each
\* pair only to relation ids observed for that pair in the training partition.
C8_GraphFromTrainOnly ==
    (pc = "constructed" /\ config.relation_masking) =>
        \A pair \in DOMAIN graph :
            /\ TrainRelationsOf(pair) # {}
            /\ graph[pair] \subseteq TrainRelationsOf(pair)

\* the batch of the Batcher that the last __getitem__ call materialised
ReadiedSource == batcher.batches[readied.item + 1]

\* seq padded with PAD_ID to width w
Padded(seq, w) == seq \o Repeat(PAD_ID, w - Len(seq))

\* the fields of a materialised batch, by their place in its 'base' tuple
OrigIdx(r) == r.base[9]

\* C1: for any batch materialised by ready_base_batch, orig_idx is a permutation of 0..n-1
\* and sorted row i of every field is the pre-sort example at position orig_idx[i] (padded
\* to the batch width), so that placing row i at orig_idx[i] restores the pre-sort order.
\* The token rows are compared in evaluation, where word dropout leaves them alone.
C1_OrigIdxRestoresOrder ==
    readied.status = "ok" =>
        LET source == ReadiedSource.base
            n == Len(source)
            r == readied.batch
            orig_idx == OrigIdx(r)
        IN  /\ Len(orig_idx) = n
            /\ Range(orig_idx) = 0..(n - 1)
            /\ \A i \in 1..n :
                 /\ \A f \in 2..7 :
                       r.base[f + 1][i] = Padded(source[orig_idx[i] + 1][f], Len(r.base[f + 1][i]))
                 /\ batcher.is_eval =>
                       r.base[1][i] = Padded(source[orig_idx[i] + 1][1], Len(r.base[1][i]))

\* C1 witness: a materialised batch of three examples, two of them of equal length, whose
\* sort has moved every example
C1_Witness ==
    /\ readied.status = "ok"
    /\ Len(ReadiedSource.base) = 3
    /\ \E i, j \in 1..3 : i # j /\ readied.batch.sentence_lengths[i] = readied.batch.sentence_lengths[j]
    /\ \A i \in 1..3 : OrigIdx(readied.batch)[i] # i - 1

\* C5: with a sample_size configured, perform_stratified_sampling returns
\* min(sample_size, corpus_size) examples.
C5_SampleCountIsMin ==
    sampled.status # "NotCalled" =>
        /\ sampled.status = "ok"
        /\ Len(sampled.sample_data) = Min(config.sample_size[1], Len(sampled.data))

\* the number of samples of relation id c in data
ClassCount(data, c) == Cardinality({i \in 1..Len(data) : data[i].base.relation = c})

\* C5 (amended): perform_stratified_sampling returns when the partition is not empty and
\* raises otherwise; the quotas are floor(sample_size / num_relations) or one more and add
\* up to sample_size; the number of examples returned is the sum over the relation ids of
\* min(quota, class size), which is at most min(sample_size, corpus_size) and equals
\* sample_size when no class is smaller than its quota.
C5_SampleCountIsSumOfQuotas ==
    sampled.status # "NotCalled" =>
        /\ sampled.status = "ok" <=> Len(sampled.data) > 0
        /\ sampled.status = "ok" =>
             LET rels == Range(name2id.rel2id)
                 q == config.sample_size[1] \div Cardinality(rels)
                 count == Len(sampled.sample_data)
                 taken == [c \in rels |-> Min(sampled.class2size[c], ClassCount(sampled.data, c))]
             IN  /\ \A c \in rels : sampled.class2size[c] \in {q, q + 1}
                 /\ SumOver(rels, sampled.class2size) = config.sample_size[1]
                 /\ count = SumOver(rels, taken)
                 /\ count <= Min(config.sample_size[1], Len(sampled.data))
                 /\ (\A c \in rels : ClassCount(sampled.data, c) >= sampled.class2size[c])
                        => count = config.sample_size[1]

\* C5 witness: a sampling that returns fewer than min(sample_size, corpus_size) examples,
\* one class being smaller than its quota
C5_Witness ==
    /\ sampled.status = "ok"
    /\ Len(sampled.sample_data) < Min(config.sample_size[1], Len(sampled.data))
    /\ \E c \in Range(name2id.rel2id) :
          0 < ClassCount(sampled.data, c) /\ ClassCount(sampled.data, c) < sampled.class2size[c]

\* C9: with relation masking enabled, every materialised batch carries, in its supplemental
\* map under the relation-masking field, one multi-hot vector of width num_rel per example
\* whose 1-entries are the relation ids known for the example's (subject, object) pair.
C9_RelationMaskVectors ==
    (config.relation_masking /\ readied.status = "ok") =>
        LET supp == readied.batch.supplemental
            triples == ReadiedSource.supplemental.triple
            orig_idx == OrigIdx(readied.batch)
        IN  /\ "relation_masking" \in DOMAIN supp
            /\ Len(supp.relation_masking[1]) = Len(triples)
            /\ \A i \in 1..Len(triples) :
                  LET triple == triples[orig_idx[i] + 1]
                      known == graph[<<triple[1], triple[3]>>]
                  IN  supp.relation_masking[1][i] =
                         [r \in 1..num_rel |-> IF (r - 1) \in known THEN 1 ELSE 0]

\* C10: a training Batcher recomputes the assignment of examples to batches for each epoch
\* (every iteration has its own shuffle and chunking, the constructor's serving the first),
\* an eval Batcher computes it once.
C10_RecomputedPerEpoch ==
    batcher.status = "ok" =>
        IF batcher.is_eval
        THEN calls.shuffle = 0 /\ calls.create_batches = 1
        ELSE calls.shuffle >= calls.iter /\ calls.create_batches >= calls.iter

\* C10 (amended): for a training Batcher as for an eval Batcher the batches are computed
\* once, in the constructor: starting an iteration and advancing it leave the Batcher (its
\* samples, their order and its batches) as it is and call neither shuffle nor
\* create_batches.
C10_BatchesComputedOnce ==
    [][(IterStart \/ IterNext) =>
          /\ batcher' = batcher
          /\ calls'.shuffle = calls.shuffle
          /\ calls'.create_batches = calls.create_batches]_vars

\* C10 witness: a training Batcher of at least two batches in its second iteration, its
\* first batch yielded again
C10_Witness ==
    /\ batcher.status = "ok"
    /\ ~batcher.is_eval
    /\ Len(batcher.batches) >= 2
    /\ calls.iter = 2
    /\ iter_pos = <<1>>
    /\ readied.status = "ok"
    /\ calls.shuffle = 1

\* C11: after construction, every create_iterator call and every batch materialisation
\* leaves name2id (the label maps and their reverse maps), the entity-pair graph, num_rel
\* and the stored partitions (their samples and their order) as they are.
C11_SharedStateReadOnly ==
    [][pc = "constructed" =>
          /\ name2id' = name2id
          /\ graph' = graph
          /\ num_rel' = num_rel
          /\ partitions' = partitions]_vars

\* C11 witness: a batch of a subj_obj_type iterator with relation masking has been
\* materialised, its examples carrying the relation sets of the graph
C11_Witness ==
    /\ readied.status = "ok"
    /\ batcher.triple2id_fn = "triple2triple"
    /\ "relation_masking" \in DOMAIN batcher.batches[1].supplemental
    /\ Len(batcher.batches[1].supplemental.relation_masking[1]) = 1
    /\ batcher.batches[1].supplemental.relation_masking[1][1] \in Range(graph)
    /\ name2id.subj_obj2triples # EmptyDict

\* names mapped through mapper, anything missing from it mapped to the unknown id
MappedOrUnknown(ids, names, mapper) ==
    /\ Len(ids) = Len(names)
    /\ \A i \in 1..Len(names) :
          ids[i] = IF names[i] \in DOMAIN mapper THEN mapper[names[i]] ELSE UNK_ID

\* the tokens of record d with the spans replaced by the entity-type tokens, for spans in
\* range
AnonymisedTokens(d) ==
    [p \in 1..Len(d.token) |->
        IF d.obj_start <= p - 1 /\ p - 1 <= d.obj_end THEN "OBJ-" \o d.obj_type
        ELSE IF d.subj_start <= p - 1 /\ p - 1 <= d.subj_end THEN "SUBJ-" \o d.subj_type
        ELSE IF config.lower THEN Lower(d.token[p]) ELSE d.token[p]]

\* C12: parsing never fails because a token, a tag or an entity-type token is out of
\* vocabulary: every record of the file yields a sample, and every token (the SUBJ-<type>
\* and OBJ-<type> tokens included), POS tag, NER tag and dependency tag missing from its
\* table is mapped to the unknown id.
C12_OutOfVocabularyIsUnknown ==
    /\ pc # "KeyError"
    /\ \A name \in DOMAIN partitions :
          /\ Len(partitions[name]) = Len(partition_files[name])
          /\ \A ds \in ParsedPairs(name) :
                /\ MappedOrUnknown(ds[2].base.tokens, AnonymisedTokens(ds[1]), word2id)
                /\ MappedOrUnknown(ds[2].base.pos, ds[1].stanford_pos, POS_TO_ID)
                /\ MappedOrUnknown(ds[2].base.ner, ds[1].stanford_ner, NER_TO_ID)
                /\ MappedOrUnknown(ds[2].base.deprel, ds[1].stanford_deprel, DEPREL_TO_ID)

\* the concatenation of the sequences of the sequence seqs
RECURSIVE Concat(_)
Concat(seqs) == IF seqs = <<>> THEN <<>> ELSE Head(seqs) \o Concat(Tail(seqs))

\* the smallest k with k * b >= n
CeilDiv(n, b) == (n + b - 1) \div b

\* C13: a Batcher over n samples with batch size B holds ceil(n / B) batches, each but the
\* last of B examples and the last of n - B * (ceil(n / B) - 1) >= 1; the batches
\* concatenated in order are the Batcher's sample list (base fields and every supplemental
\* field); an eval Batcher's sample list is the partition in its stored order.
C13_BatchesChunkTheSamples ==
    batcher.status = "ok" =>
        LET n == Len(batcher.dataset)
            B == batcher.batch_size
            batches == batcher.batches
            count == CeilDiv(n, B)
        IN  /\ Len(batches) = count
            /\ \A k \in 1..(count - 1) : Len(batches[k].base) = B
            /\ count > 0 => /\ Len(batches[count].base) = n - B * (count - 1)
                            /\ Len(batches[count].base) >= 1
            /\ Concat([k \in 1..count |-> batches[k].base])
                  = [i \in 1..n |-> base_mapper(batcher.dataset[i].base)]
            /\ \A k \in 1..count : \A name \in DOMAIN batcher.dataset[1].supplemental :
                  /\ name \in DOMAIN batches[k].supplemental
                  /\ Len(batches[k].supplemental[name]) = Len(batches[k].base)
            /\ n > 0 => \A name \in DOMAIN batcher.dataset[1].supplemental :
                  Concat([k \in 1..count |-> batches[k].supplemental[name]])
                     = [i \in 1..n |-> batcher.dataset[i].supplemental[name]]
            /\ batcher.is_eval =>
                  LET stored == partitions[partition_names[1]]
                  IN  /\ n = Len(stored)
                      /\ \A i \in 1..n :
                            /\ batcher.dataset[i].base.tokens = stored[i].base.tokens
                            /\ batcher.dataset[i].supplemental.triple = stored[i].supplemental.triple

\* C13 witness: a Batcher of three samples and batch size two: one full batch and a last
\* batch of one
C13_Witness ==
    /\ batcher.status = "ok"
    /\ Len(batcher.dataset) = 3
    /\ batcher.batch_size = 2
    /\ Len(batcher.batches) = 2
    /\ Len(batcher.batches[2].base) = 1

\* the relation name parse_data uses for record d
RelationNameOf(d) ==
    IF config.typed_relations THEN TypedName(d.subj_type, d.relation, d.obj_type) ELSE d.relation

\* the relation names of all records parsed so far, in parsing order
ParsedRelationNames ==
    LET names == Concat([k \in 1..Cardinality(DOMAIN partition_files) |->
                            partition_files[partition_names[k]]])
    IN  [i \in 1..Len(names) |-> RelationNameOf(names[i])]

\* the place of the first occurrence of name in names
FirstOccurrence(names, name) ==
    CHOOSE i \in 1..Len(names) : names[i] = name /\ \A j \in 1..(i - 1) : names[j] # name

\* C14: over the parse_data calls of the construction, rel2id maps the relation names seen
\* so far one-to-one onto 0..n-1 in the order of their first occurrence, id2rel is its
\* inverse after each call, the relation id of every stored sample is the id of its
\* record's relation name, and no step changes the id of a name.
C14_RelationIdsStable ==
    /\ [](pc \in {"preprocess", "constructed"} =>
            LET rel2id == name2id.rel2id
                names == ParsedRelationNames
            IN  /\ DOMAIN rel2id = Range(names)
                /\ \A name \in DOMAIN rel2id :
                      rel2id[name] = Cardinality({other \in DOMAIN rel2id :
                            FirstOccurrence(names, other) < FirstOccurrence(names, name)})
                /\ Range(rel2id) = 0..(Cardinality(DOMAIN rel2id) - 1)
                /\ \A a, b \in DOMAIN rel2id : rel2id[a] = rel2id[b] => a = b
                /\ DOMAIN name2id.id2rel = Range(rel2id)
                /\ \A name \in DOMAIN rel2id : name2id.id2rel[rel2id[name]] = name
                /\ \A name \in DOMAIN partitions : \A ds \in ParsedPairs(name) :
                      ds[2].base.relation = rel2id[RelationNameOf(ds[1])])
    /\ [][\A name \in DOMAIN name2id.rel2id :
             /\ name \in DOMAIN name2id'.rel2id
             /\ name2id'.rel2id[name] = name2id.rel2id[name]]_vars

\* C14 witness: the construction is complete, and the relation name of the train record
\* came again in the test record after the dev record had brought another name
C14_Witness ==
    /\ pc = "constructed"
    /\ Len(ParsedRelationNames) = 3
    /\ ParsedRelationNames[1] = ParsedRelationNames[3]
    /\ ParsedRelationNames[1] # ParsedRelationNames[2]
    /\ name2id.rel2id[ParsedRelationNames[2]] = 1
    /\ partitions["test"][1].base.relation = 0

\* the curriculum stages that give the Batcher its id2label and triple2id_fn
StagesOfBatcher ==
    {stage \in CurriculumStages :
        /\ triple2id_fn_of(stage) = batcher.triple2id_fn
        /\ id2label_of(name2id, stage) = batcher.id2label}

\* the label groups of the stage that hold the ground truth of sample: its triple in the
\* subj_obj_type stage, its relation id in the others
GroupsOf(sample, stage) ==
    LET truth == IF stage = "subj_obj_type" THEN sample.supplemental.triple
                 ELSE sample.base.relation
    IN  {group \in Range(label2id_of(name2id, stage)) : truth \in group}

\* the relation ids of the members of a label group of the stage
RelationIdsOf(group, stage) ==
    IF stage = "subj_obj_type" THEN {triple[2] : triple \in group} ELSE group

\* C15: for every stage and every example of an iterator, activated_relations has width
\* num_rel and is 1 exactly at the relation ids of the members of the one label group that
\* holds the example's ground truth; so it is 1 at the example's own relation id, and in
\* the full stage nowhere else.
C15_ActivatedRelations ==
    batcher.status = "ok" =>
        /\ StagesOfBatcher # {}
        /\ \A stage \in StagesOfBatcher : \A i \in 1..Len(batcher.dataset) :
              LET sample == batcher.dataset[i]
                  activated == sample.base.activated_relations
              IN  /\ Len(activated) = num_rel
                  /\ Cardinality(GroupsOf(sample, stage)) = 1
                  /\ \A group \in GroupsOf(sample, stage) : \A r \in 0..(num_rel - 1) :
                        activated[r + 1] = IF r \in RelationIdsOf(group, stage) THEN 1 ELSE 0
                  /\ activated[sample.base.relation + 1] = 1
                  /\ stage = "full" =>
                        \A r \in 0..(num_rel - 1) : activated[r + 1] = 1 => r = sample.base.relation

\* C15 witness: an iterator of the subj_obj_type stage whose example shares its label
\* group with a triple of another relation, so that its vector is 1 at two relation ids
C15_Witness ==
    /\ batcher.status = "ok"
    /\ batcher.triple2id_fn = "triple2triple"
    /\ \E i \in 1..Len(batcher.dataset) :
          LET activated == batcher.dataset[i].base.activated_relations
          IN  /\ Len(activated) = 2
              /\ activated[1] = 1
              /\ activated[2] = 1

\* the places of the padded integer tensors other than the token tensor in the 'base'
\* tuple of a materialised batch (pos, ner, deprel, subj_positions, obj_positions); the
\* tensor at place t holds field t - 1 of the examples
TagTensors == 3..7

\* C16: in every materialised batch of n examples each padded integer tensor has n rows
\* of the width of the longest token sequence; the rows come by descending length; row i
\* is the i-th sorted sequence followed by pad value 0 (a token may have been replaced by
\* the unknown id when training); the mask is true at (i, j) exactly when j is at or
\* beyond the length of the i-th sorted token sequence.
C16_PaddedTensorsAndMask ==
    readied.status = "ok" =>
        LET source == ReadiedSource.base
            n == Len(source)
            tensors == readied.batch.base
            orig_idx == OrigIdx(readied.batch)
            sorted(i) == source[orig_idx[i] + 1]
            lengths == {Len(source[i][1]) : i \in 1..n}
            width == CHOOSE m \in lengths : \A l \in lengths : l <= m
        IN  /\ \A i \in 1..(n - 1) : Len(sorted(i)[1]) >= Len(sorted(i + 1)[1])
            /\ \A t \in {1, 2} \cup TagTensors :
                  /\ Len(tensors[t]) = n
                  /\ \A i \in 1..n : Len(tensors[t][i]) = width
            /\ \A i \in 1..n : \A j \in 1..width :
                  LET length == Len(sorted(i)[1])
                  IN  /\ \A t \in TagTensors :
                            tensors[t][i][j] = IF j <= length THEN sorted(i)[t - 1][j] ELSE 0
                      /\ tensors[1][i][j] \in (IF j > length THEN {0}
                                                ELSE IF batcher.is_eval THEN {sorted(i)[1][j]}
                                                ELSE {sorted(i)[1][j], UNK_ID})
                      /\ tensors[2][i][j] = (j > length)

\* C16 witness: a materialised batch whose sequences differ in length, the shorter one
\* padded and masked
C16_Witness ==
    /\ readied.status = "ok"
    /\ Len(ReadiedSource.base) >= 2
    /\ \E i \in 1..Len(ReadiedSource.base) : \E j \in 1..Len(readied.batch.base[1][i]) :
          /\ readied.batch.base[2][i][j]
          /\ readied.batch.base[1][i][j] = 0
          /\ readied.batch.base[6][i][j] = 0
          /\ readied.batch.base[2][i][1] = FALSE

\* the token-sequence length of the example that sorted row i of the materialised batch
\* comes from
SortedLength(i) == Len(ReadiedSource.base[OrigIdx(readied.batch)[i] + 1][1])

\* C17: a materialised batch lists its examples by descending token-sequence length, and
\* of two examples of equal length the one with the lower original position comes first.
C17_StableTieBreak ==
    readied.status = "ok" =>
        \A i, j \in 1..Len(OrigIdx(readied.batch)) :
            i < j => \/ SortedLength(i) > SortedLength(j)
                     \/ /\ SortedLength(i) = SortedLength(j)
                        /\ OrigIdx(readied.batch)[i] < OrigIdx(readied.batch)[j]

\* C17 (amended): a materialised batch lists its examples by descending token-sequence
\* length, and of two examples of equal length the one with the higher original position
\* comes first; orig_idx gives that order, which the lengths alone determine.
C17_TiesByDescendingPosition ==
    readied.status = "ok" =>
        \A i, j \in 1..Len(OrigIdx(readied.batch)) :
            i < j => \/ SortedLength(i) > SortedLength(j)
                     \/ /\ SortedLength(i) = SortedLength(j)
                        /\ OrigIdx(readied.batch)[i] > OrigIdx(readied.batch)[j]

\* C17 witness: a materialised batch of three examples, the first and the last of the
\* same length and the middle one longer: the sorted order is middle, last, first
C17_Witness ==
    /\ readied.status = "ok"
    /\ Len(ReadiedSource.base) = 3
    /\ Len(ReadiedSource.base[1][1]) = Len(ReadiedSource.base[3][1])
    /\ Len(ReadiedSource.base[2][1]) > Len(ReadiedSource.base[1][1])
    /\ OrigIdx(readied.batch) = <<1, 2, 0>>

\* a materialised batch without its token tensor
WithoutTokens(b) == [b EXCEPT !.base = [t \in 2..9 |-> @[t]]]

\* C18: materialising a batch leaves the stored batch list as it is, and materialising
\* the batch that was materialised last once more gives the same result.
C18_SameResultEveryTime ==
    [][(batcher.status = "ok" /\ readied'.status = "ok") =>
          /\ batcher'.batches = batcher.batches
          /\ (readied.status = "ok" /\ readied'.item = readied.item)
                => readied'.batch = readied.batch]_vars

\* C18 (amended): materialising a batch leaves the Batcher and its stored batch list as
\* they are.  Whatever was materialised before, every result that materialising batch i
\* can give agrees with the last one in everything but the token tensor, and the token
\* tensors differ at most in tokens replaced by the unknown id; for an eval Batcher and
\* for a training Batcher with a word dropout rate of 0 or 1 the results are the same.
C18_SameResultButWordDropout ==
    /\ [][(batcher.status = "ok" /\ readied'.status = "ok") => batcher' = batcher]_vars
    /\ [](readied.status = "ok" =>
            \A r \in getitem(readied.item) :
                /\ WithoutTokens(r.batch) = WithoutTokens(readied.batch)
                /\ \A i \in 1..Len(r.batch.base[1]) : \A j \in 1..Len(r.batch.base[1][i]) :
                      \/ r.batch.base[1][i][j] = readied.batch.base[1][i][j]
                      \/ UNK_ID \in {r.batch.base[1][i][j], readied.batch.base[1][i][j]}
                /\ (batcher.is_eval \/ config.word_dropout \in CertainRates)
                      => r.batch = readied.batch)

\* C18 witness: a training Batcher with word dropout rate 0.5 has materialised its second
\* batch, and materialising it again can give another token tensor
C18_Witness ==
    /\ readied.status = "ok"
    /\ ~batcher.is_eval
    /\ config.word_dropout = 1
    /\ readied.item = 1
    /\ \E r \in getitem(readied.item) : r.batch.base[1] # readied.batch.base[1]

\* C19: in every materialised batch the readied 'triple' tensors (subjects, relations,
\* objects) have one row per example, row i being the triple of the example at pre-sort
\* position orig_idx[i], the example of row i of the base tensors: the activated-relations
\* row i of a full-stage batch is 1 exactly at relations[i]; sentence_lengths lists the
\* lengths in pre-sort order.
C19_TripleRowsFollowOrigIdx ==
    readied.status = "ok" =>
        LET source == ReadiedSource
            n == Len(source.base)
            orig_idx == OrigIdx(readied.batch)
            rels == readied.batch.base[8]
        IN  /\ "triple" \in DOMAIN readied.batch.supplemental
            /\ readied.batch.sentence_lengths = [k \in 1..n |-> Len(source.base[k][1])]
            /\ LET triple == readied.batch.supplemental.triple
               IN  /\ Len(triple) = 3
                   /\ \A c \in 1..3 :
                         triple[c] = [i \in 1..n |-> source.supplemental.triple[orig_idx[i] + 1][c]]
                   /\ \A i \in 1..n : \A r \in 1..Len(rels[i]) :
                         rels[i][r] = IF r - 1 = triple[2][i] THEN 1 ELSE 0

\* C19 witness: a materialised batch of examples with different triples whose sort has
\* moved the first example to the last row
C19_Witness ==
    /\ readied.status = "ok"
    /\ Len(ReadiedSource.base) = 3
    /\ OrigIdx(readied.batch)[3] = 0
    /\ LET triple == readied.batch.supplemental.triple
       IN  /\ ReadiedSource.supplemental.triple[1] = <<triple[1][3], triple[2][3], triple[3][3]>>
           /\ triple[2][1] # triple[2][3]
           /\ triple[2][2] # triple[2][3]

=============================================================================
